---- MODULE Spec2Model ----
(***************************************************************************)
(* A model of the visibility pipeline of liniya: frustum line clipping     *)
(* (src/src/frustum.rs), adaptive segment subdivision and the path-state   *)
(* accumulator of the renderer (src/src/scene/scene.rs).                   *)
(*                                                                         *)
(* f64 values are modelled as exact rationals <<n, d>> in lowest terms     *)
(* with d > 0; a point is a tuple of rationals.  Rounding of the floating  *)
(* point operations is not modelled.                                       *)
(***************************************************************************)
EXTENDS Integers, Sequences, FiniteSets, TLC

(***************************************************************************)
(* Bounds of the model.                                                    *)
(***************************************************************************)
\* segments of all clipped sub-paths rendered by one call of render_path
MaxSegments == 3
\* the end points of clipped segments have coordinates of magnitude up to CoordMax
CoordMax == 2
\* the camera resolution is 1/k for k in 1..MaxResDen
MaxResDen == 2
\* Camera::clip_path takes paths of up to MaxPathLen points
MaxPathLen == 3
\* a Camera value is built with up to MaxCalls builder calls after Camera::new
MaxCalls == 3
\* a Scene has up to MaxShapes shapes
MaxShapes == 2

(***************************************************************************)
(* Exact rational arithmetic.                                              *)
(***************************************************************************)
Abs(x) == IF x < 0 THEN -x ELSE x

RECURSIVE Gcd(_, _)
Gcd(a, b) == IF b = 0 THEN a ELSE Gcd(b, a % b)

\* the rational n/d (d # 0) in lowest terms with a positive denominator
Rat(n, d) ==
    LET g == Gcd(Abs(n), Abs(d))
        s == IF d < 0 THEN -1 ELSE 1
    IN  <<(s * n) \div g, (s * d) \div g>>

RInt(i) == <<i, 1>>
RAdd(a, b) == Rat(a[1] * b[2] + b[1] * a[2], a[2] * b[2])
RSub(a, b) == Rat(a[1] * b[2] - b[1] * a[2], a[2] * b[2])
RMul(a, b) == Rat(a[1] * b[1], a[2] * b[2])
RDiv(a, b) == Rat(a[1] * b[2], a[2] * b[1])
RLt(a, b) == a[1] * b[2] < b[1] * a[2]
RLe(a, b) == a[1] * b[2] <= b[1] * a[2]

(***************************************************************************)
(* Option<T>: None is the empty tuple, Some(x) the one-element tuple.      *)
(***************************************************************************)
None == <<>>
Some(x) == <<x>>
IsSome(o) == Len(o) = 1
Unwrap(o) == o[1]

(***************************************************************************)
(* State.                                                                  *)
(*   pc               position of the running operation                    *)
(*   camera           [hw, hh, znear, zfar, resolution] of an orthographic *)
(*                    Camera with the identity view                        *)
(*   n_paths          clipped sub-paths render_path has started            *)
(*   n_segs           segments of the current sub-path already rendered    *)
(*   n_total          segments render_path has started                     *)
(*   prev_point, point   clipped_path[i - 1] and clipped_path[i]            *)
(*   points, proj_points, idx, path_state                                  *)
(*                    locals of render_segment_adaptive                    *)
(*   curr_render_path, all_paths    locals of render_path                  *)
(*   seen_visible     history: the projected samples is_point_visible      *)
(*                    reported visible                                     *)
(*   last             history: the last step of the sample loop            *)
(*   run              history: the run of visible samples that the last    *)
(*                    tested sample of the sub-path ends: [n, first, last] *)
(*                    with n = 0 for no run, 1 for one sample and 2 for 2  *)
(*                    or more samples                                      *)
(*   frustum          the Frustum of the camera that clips                 *)
(*   clip_p0, clip_p1, clip_res   arguments and result of clip_line        *)
(*   path_in          the argument `path` of Camera::clip_path             *)
(*   seg_i, current_path, clipped_paths   locals of Camera::clip_path      *)
(*   cam_val          a Camera value [view_iso, projection, frustum,       *)
(*                    resolution] with any view and projection             *)
(*   cam_op, cam_calls   history: the last builder call and the            *)
(*                    number of builder calls on cam_val                   *)
(*   call             [fn, arg, res]: the last query on cam_val            *)
(*   bvt              the bounding volume tree of the Scene, as the ray of *)
(*                    the occlusion test meets it                          *)
(*   target_toi       the distance of the target point along the ray       *)
(*   queue, best_cost, best_result   locals of the best-first search       *)
(*   occ_result       the result of the search, None while it runs         *)
(*   scene_bvt        the bounding volume tree of the Scene that           *)
(*                    Scene::render visits                                 *)
(*   stack            the nodes BVT::visit has still to visit, each by its *)
(*                    path from the root                                   *)
(*   rendered_paths   the field of CameraVisiblePathCollector              *)
(*   visits           history: the calls of render_path, in order          *)
(***************************************************************************)
VARIABLES pc, camera, n_paths, n_segs, n_total, prev_point, point, points,
          proj_points, idx, path_state, curr_render_path, all_paths, seen_visible,
          last, frustum, clip_p0, clip_p1, clip_res, path_in, seg_i, current_path,
          clipped_paths, cam_val, cam_op, cam_calls, call, bvt, target_toi, queue,
          best_cost, best_result, occ_result, scene_bvt, stack, rendered_paths,
          visits, run

vars == <<pc, camera, n_paths, n_segs, n_total, prev_point, point, points,
          proj_points, idx, path_state, curr_render_path, all_paths, seen_visible,
          last, frustum, clip_p0, clip_p1, clip_res, path_in, seg_i, current_path,
          clipped_paths, cam_val, cam_op, cam_calls, call, bvt, target_toi, queue,
          best_cost, best_result, occ_result, scene_bvt, stack, rendered_paths,
          visits, run>>

\* the variables of Camera::clip_path
clip_path_vars == <<path_in, seg_i, current_path, clipped_paths>>

\* the variables of the Camera value and its queries
cam_vars == <<cam_val, cam_op, cam_calls, call>>

\* the variables of Scene::render
scene_vars == <<scene_bvt, stack, rendered_paths, visits>>

\* the variables of the occlusion test and of Scene::render
occ_vars == <<bvt, target_toi, queue, best_cost, best_result, occ_result, scene_vars>>

\* the variables of Frustum::clip_line, Camera::clip_path, the Camera value
\* and the occlusion test
clip_vars == <<frustum, clip_p0, clip_p1, clip_res, clip_path_vars, cam_vars, occ_vars>>

\* the variables of the renderer
render_vars == <<camera, n_paths, n_segs, n_total, prev_point, point, points,
                 proj_points, idx, path_state, curr_render_path, all_paths,
                 seen_visible, last, run>>

(***************************************************************************)
(* Camera (src/src/camera.rs), orthographic with the identity view.        *)
(***************************************************************************)
\* Camera::new().ortho(hw, hh, znear, zfar).set_resolution(res)
OrthoCamera(hw, hh, znear, zfar, res) ==
    [hw |-> hw, hh |-> hh, znear |-> znear, zfar |-> zfar, resolution |-> res]

\* world point -> NDC point (x, y, z)
project_3d(cam, p) ==
    <<RDiv(p[1], RInt(cam.hw)),
      RDiv(p[2], RInt(cam.hh)),
      RDiv(RSub(RMul(RInt(-2), p[3]), RInt(cam.zfar + cam.znear)),
           RInt(cam.zfar - cam.znear))>>

\* NDC point -> world point
unproject(cam, q) ==
    <<RMul(q[1], RInt(cam.hw)),
      RMul(q[2], RInt(cam.hh)),
      RDiv(RAdd(RMul(q[3], RInt(cam.zfar - cam.znear)), RInt(cam.zfar + cam.znear)),
           RInt(-2))>>

xy(q) == <<q[1], q[2]>>

\* a world point with integer coordinates
Pt(x, y, z) == <<RInt(x), RInt(y), RInt(z)>>

(***************************************************************************)
(* SegmentPathState (src/src/scene/scene.rs).                              *)
(***************************************************************************)
Empty == [tag |-> "Empty", path |-> <<>>]
Started(path) == [tag |-> "Started", path |-> path]
Continuing(path) == [tag |-> "Continuing", path |-> path]

\* the arms of SegmentPathState::update: <<new state, finished path>>
UpdateEmptySomeDoubled(p) == <<Started(<<p, p>>), None>>

UpdateEmptySome(p) == <<Started(<<p>>), None>>

UpdateEmptyNone == <<Empty, None>>

UpdateStartedSome(path, p) == <<Continuing(Append(path, p)), None>>

UpdateStartedNoneDropped(path) == <<Empty, None>>

UpdateStartedNone(path) == <<Empty, Some(path)>>

UpdateContinuingSomeAppended(path, p) == <<Continuing(Append(path, p)), None>>

UpdateContinuingSome(path, p) ==
    <<Continuing([path EXCEPT ![Len(path)] = p]), None>>

UpdateContinuingNoneDropped(path) == <<Empty, None>>

UpdateContinuingNone(path) == <<Empty, Some(path)>>

\* SegmentPathState::update
update(self, p) ==
    CASE self.tag = "Empty" /\ IsSome(p) -> UpdateEmptySome(Unwrap(p))
      [] self.tag = "Empty" /\ ~IsSome(p) -> UpdateEmptyNone
      [] self.tag = "Started" /\ IsSome(p) -> UpdateStartedSome(self.path, Unwrap(p))
      [] self.tag = "Started" /\ ~IsSome(p) -> UpdateStartedNone(self.path)
      [] self.tag = "Continuing" /\ IsSome(p) -> UpdateContinuingSome(self.path, Unwrap(p))
      [] self.tag = "Continuing" /\ ~IsSome(p) -> UpdateContinuingNone(self.path)

\* SegmentPathState::into_path
into_pathContinuing(self) ==
    IF self.tag = "Continuing" THEN Some(self.path) ELSE None

\* SegmentPathState::into_path
into_path(self) ==
    IF self.tag = "Empty" THEN None ELSE Some(self.path)

(***************************************************************************)
(* split_segment_adaptive (src/src/scene/scene.rs).                        *)
(***************************************************************************)
VSub(a, b) == [k \in DOMAIN a |-> RSub(a[k], b[k])]

norm_squared(v) ==
    LET sq(k) == RMul(v[k], v[k])
    IN  IF Len(v) = 2 THEN RAdd(sq(1), sq(2)) ELSE RAdd(RAdd(sq(1), sq(2)), sq(3))

\* (dist_2d_sq.sqrt() / sres).ceil(): the least n with n * sres >= sqrt(dist_2d_sq)
RECURSIVE CeilSqrtOver(_, _, _)
CeilSqrtOver(dist_2d_sq, sres, n) ==
    IF RLe(dist_2d_sq, RMul(RInt(n * n), RMul(sres, sres)))
    THEN n
    ELSE CeilSqrtOver(dist_2d_sq, sres, n + 1)

\* the quotient rounded down
SplitStepsFloor(dist_2d_sq, sres) ==
    LET n == CeilSqrtOver(dist_2d_sq, sres, 0)
    IN  IF dist_2d_sq = RMul(RInt(n * n), RMul(sres, sres)) THEN n ELSE n - 1

\* the number of steps n of the subdivision
SplitSteps(dist_2d_sq, sres) == CeilSqrtOver(dist_2d_sq, sres, 0)

\* the test that decides whether the segment is subdivided
NeedsSplit(dist_2d_sq, sres) == RLt(RMul(sres, sres), dist_2d_sq)

\* <<segments, proj_segments>>: the samples in world space and in NDC
split_segment_adaptive(cam, p0, p1) ==
    LET proj_p0 == project_3d(cam, p0)
        proj_p1 == project_3d(cam, p1)
        dist_2d_sq == norm_squared(VSub(xy(proj_p0), xy(proj_p1)))
        sres == cam.resolution
        proj_segments ==
            IF NeedsSplit(dist_2d_sq, sres)
            THEN LET n == SplitSteps(dist_2d_sq, sres)
                     v == VSub(proj_p1, proj_p0)
                 IN  [j \in 1..(n + 1) |->
                        [k \in 1..3 |->
                            RAdd(proj_p0[k], RDiv(RMul(v[k], RInt(j - 1)), RInt(n)))]]
            ELSE <<proj_p0, proj_p1>>
        segments == [j \in DOMAIN proj_segments |-> unproject(cam, proj_segments[j])]
    IN  <<segments, proj_segments>>

(***************************************************************************)
(* Frustum (src/src/frustum.rs).                                           *)
(*                                                                         *)
(* Inside clip_line a point is <<X, Y, Z, D>> with integers and D > 0, the *)
(* point (X/D, Y/D, Z/D).  A plane is [n, w, norm_sq] with integers: the   *)
(* vector (n, w) / sqrt(norm_sq), whose normal n / sqrt(norm_sq) has       *)
(* length 1.  A clip matrix is given with integer entries, up to a         *)
(* positive factor, which the normalisation of the planes removes.  The    *)
(* square root is never taken: every test is decided on integers.          *)
(***************************************************************************)
\* 1e-5 is 1 / EpsInv
EpsInv == 100000

RZero == RInt(0)
ROne == RInt(1)

Max(a, b) == IF a < b THEN b ELSE a

\* x < sqrt(y) and x <= sqrt(y) for integers x >= 0, y >= 0; the square of
\* x is taken only when x <= max(1, y)
LtSqrt(x, y) == IF Max(1, y) <= x THEN FALSE ELSE x * x < y
LeSqrt(x, y) == IF Max(1, y) < x THEN FALSE ELSE x * x <= y

IDot3(a, b) == a[1] * b[1] + a[2] * b[2] + a[3] * b[3]

\* a point of rationals as <<X, Y, Z, D>>, and back
Hom(p) ==
    LET d == p[1][2] * p[2][2] * p[3][2]
        g == Gcd(Gcd(Gcd(Abs(p[1][1] * p[2][2] * p[3][2]),
                         Abs(p[2][1] * p[1][2] * p[3][2])),
                     Abs(p[3][1] * p[1][2] * p[2][2])), d)
    IN  <<(p[1][1] * p[2][2] * p[3][2]) \div g, (p[2][1] * p[1][2] * p[3][2]) \div g,
          (p[3][1] * p[1][2] * p[2][2]) \div g, d \div g>>

FromHom(h) == <<Rat(h[1], h[4]), Rat(h[2], h[4]), Rat(h[3], h[4])>>

\* (p1 - p0) * (D0 * D1): the direction of the segment, with integers
HomDir(h0, h1) == [k \in 1..3 |-> h1[k] * h0[4] - h0[k] * h1[4]]

\* plane.dot(ext) * sqrt(norm_sq) * D for ext = (v, 1)
PlaneDot(plane, h) == IDot3(plane.n, h) + plane.w * h[4]

\* p0 + (p1 - p0) * t as <<X, Y, Z, D>>
PointAt(h0, h1, t) ==
    LET v == HomDir(h0, h1)
    IN  Hom([k \in 1..3 |-> <<h0[k] * h1[4] * t[2] + v[k] * t[1], h0[4] * h1[4] * t[2]>>])

\* 9 times the projection matrix of Perspective3::new(1.0, FRAC_PI_2, 1.0, 10.0),
\* the projection of Camera::new()
PerspectiveMatrix ==
    <<<<9, 0, 0, 0>>,
      <<0, 9, 0, 0>>,
      <<0, 0, -11, -20>>,
      <<0, 0, -9, 0>>>>

\* hw * hh * (zfar - znear) times the projection matrix of
\* Orthographic3::new(-hw, hw, -hh, hh, znear, zfar)
OrthoMatrix(hw, hh, znear, zfar) ==
    <<<<hh * (zfar - znear), 0, 0, 0>>,
      <<0, hw * (zfar - znear), 0, 0>>,
      <<0, 0, -2 * hw * hh, -(zfar + znear) * hw * hh>>,
      <<0, 0, 0, hw * hh * (zfar - znear)>>>>

\* Frustum::from_clip_matrix: Left, Right, Bottom, Top, Near, Far
from_clip_matrix(m) ==
    LET add(a, b) == [k \in 1..4 |-> a[k] + b[k]]
        sub(a, b) == [k \in 1..4 |-> a[k] - b[k]]
        raw == <<add(m[4], m[1]), sub(m[4], m[1]),
                 add(m[4], m[2]), sub(m[4], m[2]),
                 add(m[4], m[3]), sub(m[4], m[3])>>
        plane(p) == [n |-> <<p[1], p[2], p[3]>>, w |-> p[4],
                     norm_sq |-> IDot3(p, p)]
    IN  [planes |-> <<plane(raw[1]), plane(raw[2]), plane(raw[3]),
                      plane(raw[4]), plane(raw[5]), plane(raw[6])>>]

is_point_inStrict(F, h) ==
    \A i \in 1..6 : PlaneDot(F.planes[i], h) > 0

\* Frustum::is_point_in
is_point_in(F, h) ==
    \A i \in 1..6 : PlaneDot(F.planes[i], h) >= 0

\* Frustum::is_point_in_or_on with eps = 1 / eps_inv
is_point_in_or_on(F, h, eps_inv) ==
    \A i \in 1..6 :
        LET d == PlaneDot(F.planes[i], h)
        IN  \/ d >= 0
            \/ LeSqrt((-d) * eps_inv, F.planes[i].norm_sq * h[4] * h[4])

\* plane_segment_directed_intersection: None, Some(t), or Some of a value
\* that is not finite (a segment of length 0: 0/0 < eps is false, and the
\* quotient by -0 is an infinity or a NaN)
NoCrossing == [kind |-> "None", t |-> RZero]
NonFinite == [kind |-> "NonFinite", t |-> RZero]
Crossing(t) == [kind |-> "Some", t |-> t]

plane_segment_directed_intersection(plane, h0, h1) ==
    LET v == HomDir(h0, h1)
        v_dot_pn == IDot3(v, plane.n)
    IN  IF IDot3(v, v) = 0
        THEN NonFinite
        ELSE IF LtSqrt(Abs(v_dot_pn) * EpsInv, plane.norm_sq * IDot3(v, v))
        THEN NoCrossing
        ELSE Crossing(Rat(PlaneDot(plane, h0) * h1[4], -v_dot_pn))

\* isects.sort_by(cmp): insertion of t into a sorted sequence
RECURSIVE InsertSorted(_, _)
InsertSorted(seq, t) ==
    IF seq = <<>> THEN <<t>>
    ELSE IF RLt(t, Head(seq)) THEN <<t>> \o seq
    ELSE <<Head(seq)>> \o InsertSorted(Tail(seq), t)

RECURSIVE SortByT(_)
SortByT(seq) ==
    IF seq = <<>> THEN <<>>
    ELSE InsertSorted(SortByT(SubSeq(seq, 1, Len(seq) - 1)), seq[Len(seq)])

\* is the crossing kept: a finite t with 0 <= t <= 1
InUnitRange(c) == c.kind = "Some" /\ RLe(RZero, c.t) /\ RLe(c.t, ROne)

\* the sorted parameters t of the crossings of the six planes
Intersections(F, h0, h1) ==
    LET all == <<plane_segment_directed_intersection(F.planes[1], h0, h1),
                 plane_segment_directed_intersection(F.planes[2], h0, h1),
                 plane_segment_directed_intersection(F.planes[3], h0, h1),
                 plane_segment_directed_intersection(F.planes[4], h0, h1),
                 plane_segment_directed_intersection(F.planes[5], h0, h1),
                 plane_segment_directed_intersection(F.planes[6], h0, h1)>>
        kept == SelectSeq(all, InUnitRange)
    IN  SortByT([i \in 1..Len(kept) |-> kept[i].t])

\* ClipResult; a panic of clip_line is the result Panic
Outside == [kind |-> "Outside", pts |-> <<>>]
Inside(p0, p1) == [kind |-> "Inside", pts |-> <<p0, p1>>]
Partial(partial_type, c0, c1) == [kind |-> partial_type, pts |-> <<c0, c1>>]
Panic == [kind |-> "Panic", pts |-> <<>>]

\* the crossing points that lie in or on the frustum
PointsOnFrustum(F, h0, h1, isects) ==
    LET pts == [i \in 1..Len(isects) |-> PointAt(h0, h1, isects[i])]
        on(h) == is_point_in_or_on(F, h, EpsInv)
    IN  SelectSeq(pts, on)

ClipOutsideOutsideLenient(points_on_frustum) ==
    CASE Len(points_on_frustum) \in {0, 1} -> Outside
      [] OTHER -> Partial("Infix", FromHom(points_on_frustum[1]),
                          FromHom(points_on_frustum[Len(points_on_frustum)]))

\* the result of clip_line for a segment with no end point inside
ClipOutsideOutside(points_on_frustum) ==
    CASE Len(points_on_frustum) = 2 ->
             Partial("Infix", FromHom(points_on_frustum[1]), FromHom(points_on_frustum[2]))
      [] Len(points_on_frustum) \in {0, 1} -> Outside
      [] OTHER -> Panic

PrefixClipLast(p0, p1, isects) ==
    IF isects = <<>> THEN Panic
    ELSE Partial("Prefix", p0, FromHom(PointAt(Hom(p0), Hom(p1), isects[Len(isects)])))

\* the result of clip_line when only p0 is inside: the clip point is isects[0]
PrefixClip(p0, p1, isects) ==
    IF isects = <<>> THEN Panic
    ELSE Partial("Prefix", p0, FromHom(PointAt(Hom(p0), Hom(p1), isects[1])))

\* the result of clip_line when only p1 is inside: the clip point is
\* isects.last().unwrap()
SuffixClip(p0, p1, isects) ==
    IF isects = <<>> THEN Panic
    ELSE Partial("Suffix", FromHom(PointAt(Hom(p0), Hom(p1), isects[Len(isects)])), p1)

\* Frustum::clip_line
clip_line(F, p0, p1) ==
    LET h0 == Hom(p0)
        h1 == Hom(p1)
        in0 == is_point_in(F, h0)
        in1 == is_point_in(F, h1)
        isects == Intersections(F, h0, h1)
    IN  IF in0 /\ in1 THEN Inside(p0, p1)
        ELSE IF in0 THEN PrefixClip(p0, p1, isects)
        ELSE IF in1 THEN SuffixClip(p0, p1, isects)
        ELSE ClipOutsideOutside(PointsOnFrustum(F, h0, h1, isects))

\* the box frustum of Camera::new().ortho(h, h, -h, h): the cube of half-extent h
BoxFrustum(h) == from_clip_matrix(OrthoMatrix(h, h, -h, h))

\* the frustum of Camera::new(), and the box frusta of half-extent 1 and 2
Frusta == {from_clip_matrix(PerspectiveMatrix), BoxFrustum(1), BoxFrustum(2)}

(***************************************************************************)
(* Camera values (src/src/camera.rs).  A matrix is 4 rows of 4 integers,   *)
(* a projection up to a positive factor.  A view is a rotation that maps   *)
(* axes to axes and a translation by integers, so that look_at_rh has      *)
(* integer entries.                                                        *)
(***************************************************************************)
IdentityMatrix == <<<<1, 0, 0, 0>>, <<0, 1, 0, 0>>, <<0, 0, 1, 0>>, <<0, 0, 0, 1>>>>

\* the matrix product a * b
MatMul(a, b) ==
    [r \in 1..4 |-> [c \in 1..4 |->
        a[r][1] * b[1][c] + a[r][2] * b[2][c] + a[r][3] * b[3][c] + a[r][4] * b[4][c]]]

Cross3(a, b) ==
    <<a[2] * b[3] - a[3] * b[2], a[3] * b[1] - a[1] * b[3], a[1] * b[2] - a[2] * b[1]>>

\* v.normalize() for a vector along an axis
AxisNormalize(v) ==
    LET l == Abs(v[1]) + Abs(v[2]) + Abs(v[3])
    IN  <<v[1] \div l, v[2] \div l, v[3] \div l>>

\* Isometry3::look_at_rh(origin, target, up).to_matrix()
look_at_rh(origin, target, up) ==
    LET z == AxisNormalize(<<origin[1] - target[1], origin[2] - target[2],
                             origin[3] - target[3]>>)
        x == AxisNormalize(Cross3(up, z))
        y == Cross3(z, x)
    IN  <<<<x[1], x[2], x[3], -IDot3(x, origin)>>,
          <<y[1], y[2], y[3], -IDot3(y, origin)>>,
          <<z[1], z[2], z[3], -IDot3(z, origin)>>,
          <<0, 0, 0, 1>>>>

\* aspect * t * (zfar - znear) times the projection matrix of
\* Perspective3::new(aspect, fov, znear, zfar), for t = tan(fov / 2)
PerspectiveMatrixOf(t, aspect, znear, zfar) ==
    <<<<zfar - znear, 0, 0, 0>>,
      <<0, aspect * (zfar - znear), 0, 0>>,
      <<0, 0, -aspect * t * (zfar + znear), -2 * aspect * t * zfar * znear>>,
      <<0, 0, -aspect * t * (zfar - znear), 0>>>>

update_frustumStale(c) == c

\* Camera::update_frustum
update_frustum(c) ==
    [c EXCEPT !.frustum = from_clip_matrix(MatMul(c.projection, c.view_iso))]

\* Camera::new
CameraNew ==
    [view_iso |-> IdentityMatrix, frustum |-> from_clip_matrix(PerspectiveMatrix),
     projection |-> PerspectiveMatrix, resolution |-> Rat(1, 1000)]

\* Camera::look_at
look_at(c, origin, target, up) ==
    update_frustum([c EXCEPT !.view_iso = look_at_rh(origin, target, up)])

\* Camera::perspective, with t = tan(fov / 2)
perspective(c, t, aspect, znear, zfar) ==
    update_frustum([c EXCEPT !.projection = PerspectiveMatrixOf(t, aspect, znear, zfar)])

\* Camera::ortho
ortho(c, half_width, half_height, znear, zfar) ==
    update_frustum([c EXCEPT
        !.projection = OrthoMatrix(half_width, half_height, znear, zfar)])

\* Camera::set_resolution
set_resolution(c, res) == [c EXCEPT !.resolution = res]

NoCall == [fn |-> "none", arg |-> <<>>, res |-> FALSE]

\* Camera::is_point_visible, for a point with integer coordinates
is_point_visible(c, p) == is_point_in(c.frustum, <<p[1], p[2], p[3], 1>>)

\* an AABB by bb.center() and bb.half_extents()
Aabb(center, half_extents) == [center |-> center, half_extents |-> half_extents]

box_plane_intersectionEager(bb, plane) ==
    LET n == plane.n
        he == bb.half_extents
        r == Abs(n[1]) * he[1] + Abs(n[2]) * he[2] + Abs(n[3]) * he[3]
        s == IDot3(n, bb.center) + plane.w
    IN  IF s < r THEN "Outside"
        ELSE IF s > r THEN "Inside"
        ELSE "Intersects"

\* box_plane_intersection (src/src/util.rs); s and r are both scaled by the
\* length of the normal of the plane
box_plane_intersection(bb, plane) ==
    LET n == plane.n
        he == bb.half_extents
        r == Abs(n[1]) * he[1] + Abs(n[2]) * he[2] + Abs(n[3]) * he[3]
        s == IDot3(n, bb.center) + plane.w
    IN  IF s < -r THEN "Outside"
        ELSE IF s > r THEN "Inside"
        ELSE "Intersects"

RECURSIVE AabbVisibleFrom(_, _, _)
\* the loop of Camera::is_aabb_visible from plane i on
AabbVisibleFrom(c, bb, i) ==
    IF i > 6 THEN TRUE
    ELSE LET test == box_plane_intersection(bb, c.frustum.planes[i])
         IN  CASE test = "Inside" -> AabbVisibleFrom(c, bb, i + 1)
               [] test = "Intersects" -> TRUE
               [] test = "Outside" -> FALSE

\* Camera::is_aabb_visible
is_aabb_visible(c, bb) == AabbVisibleFrom(c, bb, 1)

\* the largest time of impact of the model, max_toi of the occlusion test
ToiMax == 3

\* N::max_value(), the first best cost of the search
CostMax == ToiMax + 1

\* Scene::render before it is called, on a Scene without shapes
SceneIdle ==
    /\ scene_bvt = None
    /\ stack = <<>>
    /\ rendered_paths = <<>>
    /\ visits = <<>>

\* the occlusion test before it is called, on a Scene without shapes
OcclusionIdle ==
    /\ SceneIdle
    /\ bvt = None
    /\ target_toi = 1
    /\ queue = {}
    /\ best_cost = CostMax
    /\ best_result = None
    /\ occ_result = None

\* the Camera value before it is built
CameraIdle ==
    /\ cam_val = CameraNew
    /\ cam_op = "new"
    /\ cam_calls = 0
    /\ call = NoCall
    /\ OcclusionIdle

\* Camera::clip_path before it is called
ClipPathIdle ==
    /\ path_in = <<>>
    /\ seg_i = 1
    /\ current_path = <<>>
    /\ clipped_paths = <<>>
    /\ CameraIdle

\* Frustum::clip_line before it is called
ClipIdle ==
    /\ frustum = from_clip_matrix(PerspectiveMatrix)
    /\ clip_p0 = Pt(0, 0, 0)
    /\ clip_p1 = Pt(0, 0, 0)
    /\ clip_res = Outside
    /\ ClipPathIdle

(***************************************************************************)
(* Scene::render_segment_adaptive and Scene::render_path                   *)
(* (src/src/scene/scene.rs), one step per iteration of their loops.        *)
(* Camera::clip_path's result is read one point at a time: the points of   *)
(* a clipped sub-path are drawn when the loop of render_path reaches them. *)
(* Scene::is_point_visible depends on the shapes of the scene, which are   *)
(* not modelled: its verdict is any boolean.                               *)
(***************************************************************************)
\* Camera::new().ortho(2.0, 2.0, -2.0, 2.0).set_resolution(1.0)
RenderCamera == OrthoCamera(2, 2, -2, 2, RInt(1))

\* world points inside the frustum of RenderCamera, the points of clipped paths
RenderPoints == {Pt(0, 0, 0), Pt(1, 0, 0), Pt(2, 1, 0)}

InitialStateNoSkip(curr_path) ==
    IF IsSome(curr_path) /\ Len(Unwrap(curr_path)) # 0
    THEN <<0, Started(Unwrap(curr_path))>>
    ELSE <<0, Empty>>

\* <<first_point, path_state>> from the path carried into the segment
InitialState(curr_path) ==
    IF IsSome(curr_path) /\ Len(Unwrap(curr_path)) # 0
    THEN <<1, Started(Unwrap(curr_path))>>
    ELSE <<0, Empty>>

SampleInputAlways(is_visible, proj_point) == Some(xy(proj_point))

\* the argument of update for one sample
SampleInput(is_visible, proj_point) ==
    IF is_visible THEN Some(xy(proj_point)) ELSE None

\* paths after the finished path of one update was handled
PushFinished(paths, finished_path) ==
    IF IsSome(finished_path) /\ Len(Unwrap(finished_path)) > 1
    THEN Append(paths, Unwrap(finished_path))
    ELSE paths

FlushFinalAny(paths, curr_path) ==
    IF IsSome(curr_path) THEN Append(paths, Unwrap(curr_path)) ELSE paths

\* all_paths after the flush that ends a clipped sub-path
FlushFinal(paths, curr_path) ==
    IF IsSome(curr_path) /\ Len(Unwrap(curr_path)) >= 2
    THEN Append(paths, Unwrap(curr_path))
    ELSE paths

\* no run of visible samples
NoRun == [n |-> 0, first |-> <<>>, last |-> <<>>]

\* the run after one more sample of the sub-path was tested
NextRun(r, is_visible, p) ==
    IF ~is_visible THEN NoRun
    ELSE IF r.n = 0 THEN [n |-> 1, first |-> p, last |-> p]
    ELSE [n |-> 2, first |-> r.first, last |-> p]

Step(op, from, visible) ==
    [op |-> op, from |-> from.tag, from_len |-> Len(from.path), visible |-> visible]

\* the renderer before render_path is called
RenderIdle ==
    /\ camera = RenderCamera
    /\ n_paths = 0
    /\ n_segs = 0
    /\ n_total = 0
    /\ prev_point = Pt(0, 0, 0)
    /\ point = Pt(0, 0, 0)
    /\ points = <<>>
    /\ proj_points = <<>>
    /\ idx = 0
    /\ path_state = Empty
    /\ curr_render_path = None
    /\ all_paths = <<>>
    /\ seen_visible = {}
    /\ last = Step("init", Empty, FALSE)
    /\ run = NoRun

RenderInit ==
    /\ pc = "paths"
    /\ RenderIdle
    /\ ClipIdle

\* render_path: the head of `for clipped_path in clipped_paths`
BeginClippedPath ==
    /\ pc = "paths"
    /\ n_total < MaxSegments
    /\ \E p \in RenderPoints : prev_point' = p
    /\ curr_render_path' = None
    /\ n_paths' = n_paths + 1
    /\ n_segs' = 0
    /\ pc' = "segments"
    /\ last' = Step("begin_path", Empty, FALSE)
    /\ run' = NoRun
    /\ UNCHANGED clip_vars
    /\ UNCHANGED <<camera, n_total, point, points, proj_points, idx, path_state, all_paths,
                   seen_visible>>

\* render_segment_adaptive up to the head of its loop
BeginSegment ==
    /\ pc = "segments"
    /\ n_total < MaxSegments
    /\ n_total' = n_total + 1
    /\ \E p \in RenderPoints :
          /\ point' = p
          /\ points' = split_segment_adaptive(camera, prev_point, p)[1]
          /\ proj_points' = split_segment_adaptive(camera, prev_point, p)[2]
    /\ idx' = InitialState(curr_render_path)[1]
    /\ path_state' = InitialState(curr_render_path)[2]
    /\ pc' = "samples"
    /\ last' = Step("begin_segment", Empty, FALSE)
    /\ UNCHANGED run
    /\ UNCHANGED clip_vars
    /\ UNCHANGED <<camera, n_paths, n_segs, prev_point, curr_render_path, all_paths,
                   seen_visible>>

\* one iteration of `for i in first_point..points.len()`
TestSample ==
    /\ pc = "samples"
    /\ idx < Len(proj_points)
    /\ \E is_visible \in BOOLEAN :
          LET res == update(path_state, SampleInput(is_visible, proj_points[idx + 1]))
          IN  /\ path_state' = res[1]
              /\ all_paths' = PushFinished(all_paths, res[2])
              /\ seen_visible' = IF is_visible
                                 THEN seen_visible \cup {xy(proj_points[idx + 1])}
                                 ELSE seen_visible
              /\ last' = Step("test", path_state, is_visible)
              /\ run' = NextRun(run, is_visible, xy(proj_points[idx + 1]))
    /\ idx' = idx + 1
    /\ UNCHANGED clip_vars
    /\ UNCHANGED <<pc, camera, n_paths, n_segs, n_total, prev_point, point, points,
                   proj_points,                   curr_render_path>>

\* render_segment_adaptive returns; render_path stores the carried path
EndSegment ==
    /\ pc = "samples"
    /\ idx >= Len(proj_points)
    /\ curr_render_path' = into_path(path_state)
    /\ prev_point' = point
    /\ n_segs' = n_segs + 1
    /\ points' = <<>>
    /\ proj_points' = <<>>
    /\ idx' = 0
    /\ path_state' = Empty
    /\ pc' = "segments"
    /\ last' = Step("end_segment", path_state, FALSE)
    /\ UNCHANGED run
    /\ UNCHANGED clip_vars
    /\ UNCHANGED <<camera, n_paths, n_total, point, all_paths, seen_visible>>

\* render_path: the flush after the last segment of a clipped sub-path
EndClippedPath ==
    /\ pc = "segments"
    /\ n_segs >= 1
    /\ all_paths' = FlushFinal(all_paths, curr_render_path)
    /\ pc' = "paths"
    /\ last' = Step("end_path", Empty, FALSE)
    /\ run' = NoRun
    /\ UNCHANGED clip_vars
    /\ UNCHANGED <<camera, n_paths, n_segs, n_total, prev_point, point, points,
                   proj_points, idx,
                   path_state, curr_render_path, seen_visible>>

\* render_path returns all_paths
Return ==
    /\ pc = "paths"
    /\ pc' = "done"
    /\ last' = Step("return", Empty, FALSE)
    /\ UNCHANGED run
    /\ UNCHANGED clip_vars
    /\ UNCHANGED <<camera, n_paths, n_segs, n_total, prev_point, point, points,
                   proj_points, idx,
                   path_state, curr_render_path, all_paths, seen_visible>>

RenderNext ==
    \/ BeginClippedPath
    \/ BeginSegment
    \/ TestSample
    \/ EndSegment
    \/ EndClippedPath
    \/ Return

RenderSpec == RenderInit /\ [][RenderNext]_vars

(***************************************************************************)
(* split_segment_adaptive on its own: every call draws a camera resolution *)
(* and the two end points of a segment inside the frustum.                 *)
(***************************************************************************)
\* resolutions j/k of the camera
SplitResolutions == {Rat(j, k) : j \in {1, 3}, k \in 1..MaxResDen}

\* the world points with integer coordinates inside the frustum of
\* Camera::new().ortho(2.0, 2.0, -2.0, 2.0)
SplitPoints == {Pt(x, y, z) : x \in -2..2, y \in -2..2, z \in 0..1}

SplitInit ==
    /\ pc = "split"
    /\ RenderIdle
    /\ ClipIdle

\* one call split_segment_adaptive(camera, p0, p1)
Split ==
    /\ pc = "split"
    /\ \E res \in SplitResolutions, p0 \in SplitPoints, p1 \in SplitPoints :
          /\ camera' = OrthoCamera(2, 2, -2, 2, res)
          /\ prev_point' = p0
          /\ point' = p1
          /\ points' = split_segment_adaptive(camera', p0, p1)[1]
          /\ proj_points' = split_segment_adaptive(camera', p0, p1)[2]
    /\ pc' = "split_done"
    /\ UNCHANGED clip_vars
    /\ UNCHANGED <<n_paths, n_segs, n_total, idx, path_state, curr_render_path,
                   all_paths, seen_visible, last, run>>

SplitNext == Split

SplitSpec == SplitInit /\ [][SplitNext]_vars

\* the squared on-screen distance of two NDC points
ScreenDistSq(a, b) == norm_squared(VSub(xy(a), xy(b)))

\* C6: split_segment_adaptive returns 2 samples when the projected length L
\* is at most the resolution r, and ceil(L / r) + 1 samples otherwise; the
\* first and last sample are the projections of p0 and p1, the samples are
\* equally spaced, and consecutive samples are at most r apart on screen.
C6_SampleCount ==
    pc = "split_done" =>
        LET r == camera.resolution
            q0 == project_3d(camera, prev_point)
            q1 == project_3d(camera, point)
            LSq == ScreenDistSq(q0, q1)
            n == Len(proj_points) - 1
            rSq(m) == RMul(RInt(m * m), RMul(r, r))
        IN  /\ Len(points) = Len(proj_points)
            /\ RLe(LSq, rSq(1)) => n = 1
            /\ RLt(rSq(1), LSq) => (RLe(LSq, rSq(n)) /\ RLt(rSq(n - 1), LSq))
            /\ proj_points[1] = q0
            /\ proj_points[n + 1] = q1
            /\ \A j \in 1..n :
                  /\ \A k \in 1..3 :
                        RMul(RInt(n), RSub(proj_points[j + 1][k], proj_points[j][k]))
                          = RSub(q1[k], q0[k])
                  /\ RLe(ScreenDistSq(proj_points[j], proj_points[j + 1]), rSq(1))

\* a segment of projected length sqrt(2) at resolution 1/2: 3 steps, 4 samples
C6_Witness ==
    /\ pc = "split_done"
    /\ camera.resolution = Rat(1, 2)
    /\ ScreenDistSq(project_3d(camera, prev_point), project_3d(camera, point)) = RInt(2)
    /\ Len(proj_points) = 4

(***************************************************************************)
(* Frustum::clip_line on its own: one call on a segment whose end points   *)
(* have integer coordinates.                                               *)
(***************************************************************************)
\* the end points: a block of integer points (the frusta are symmetric in y)
\* and the points of the examples
ClipPoints ==
    {Pt(x, y, z) : x \in -CoordMax..CoordMax, y \in 0..CoordMax,
                   z \in -CoordMax..CoordMax}
      \cup {Pt(-5, 0, 0), Pt(5, 0, 0), Pt(6, 0, 0)}

ClipInit ==
    /\ pc = "clip"
    /\ RenderIdle
    /\ frustum \in Frusta
    /\ clip_p0 = Pt(0, 0, 0)
    /\ clip_p1 = Pt(0, 0, 0)
    /\ clip_res = Outside
    /\ ClipPathIdle

\* one call frustum.clip_line(p0, p1)
ClipLine ==
    /\ pc = "clip"
    /\ \E p0 \in ClipPoints, p1 \in ClipPoints :
          /\ clip_p0' = p0
          /\ clip_p1' = p1
          /\ clip_res' = clip_line(frustum, p0, p1)
    /\ pc' = "clipped"
    /\ UNCHANGED frustum
    /\ UNCHANGED clip_path_vars
    /\ UNCHANGED cam_vars
    /\ UNCHANGED occ_vars
    /\ UNCHANGED render_vars

ClipNext == ClipLine

ClipSpec == ClipInit /\ [][ClipNext]_vars

(***************************************************************************)
(* Properties of clip_line.  The geometry is stated on the planes of the   *)
(* frustum: f(i, p) has the sign of the distance of p to plane i.          *)
(***************************************************************************)
f(i, p) == PlaneDot(frustum.planes[i], Hom(p))

In0 == \A i \in 1..6 : f(i, clip_p0) >= 0
In1 == \A i \in 1..6 : f(i, clip_p1) >= 0

\* plane i is not parallel to the segment
Crosses(i) == IDot3(HomDir(Hom(clip_p0), Hom(clip_p1)), frustum.planes[i].n) # 0

\* c is a point of the segment from p0 to p1
OnSeg(p0, p1, c) ==
    LET h0 == Hom(p0)
        h1 == Hom(p1)
        hc == Hom(c)
        v == HomDir(h0, h1)
        w == HomDir(h0, hc)
    IN  /\ Cross3(w, v) = <<0, 0, 0>>
        /\ IDot3(w, v) >= 0
        /\ IDot3(w, v) * h1[4] <= IDot3(v, v) * hc[4]

\* c is a point of the segment from clip_p0 to clip_p1
OnSegment(c) == OnSeg(clip_p0, clip_p1, c)

\* c is inside the frustum and on one of its planes
OnBoundary(c) ==
    /\ \A i \in 1..6 : f(i, c) >= 0
    /\ \E i \in 1..6 : f(i, c) = 0

\* no plane is crossed on the way from a to c, c excluded
NoCrossingBefore(a, c) ==
    \A i \in 1..6 :
        Crosses(i) =>
            /\ ~(f(i, a) = 0 /\ a # c)
            /\ ~(f(i, a) > 0 /\ f(i, c) < 0)
            /\ ~(f(i, a) < 0 /\ f(i, c) > 0)

BoundaryCrossings ==
    LET h0 == Hom(clip_p0)
        h1 == Hom(clip_p1)
        v == HomDir(h0, h1)
        t(i) == Rat(PlaneDot(frustum.planes[i], h0) * h1[4],
                    -IDot3(v, frustum.planes[i].n))
        pt(i) == FromHom(PointAt(h0, h1, t(i)))
    IN  {pt(i) : i \in {j \in 1..6 : Crosses(j) /\ OnSegment(pt(j)) /\ OnBoundary(pt(j))}}

\* a is not after b on the way from p0 to p1
NotAfterOn(p0, p1, a, b) ==
    LET h0 == Hom(p0)
        v == HomDir(h0, Hom(p1))
        ha == Hom(a)
        hb == Hom(b)
    IN  IDot3(HomDir(h0, ha), v) * hb[4] <= IDot3(HomDir(h0, hb), v) * ha[4]

\* a is not after b on the way from clip_p0 to clip_p1
NotAfter(a, b) == NotAfterOn(clip_p0, clip_p1, a, b)

\* C9 as stated: a segment with both end points outside that passes through
\* the frustum gives Infix with the entry point and then the exit point;
\* one with no crossing on the boundary of the frustum gives Outside.
C9_InfixOrOutside ==
    (pc = "clipped" /\ ~In0 /\ ~In1) =>
        /\ Cardinality(BoundaryCrossings) = 2 =>
              /\ clip_res.kind = "Infix"
              /\ {clip_res.pts[1], clip_res.pts[2]} = BoundaryCrossings
              /\ NotAfter(clip_res.pts[1], clip_res.pts[2])
        /\ BoundaryCrossings = {} => clip_res = Outside

\* the number of planes whose crossing has t in [0, 1] and lies in or on
\* the frustum within 1e-5
OnFrustumCount ==
    LET h0 == Hom(clip_p0)
        h1 == Hom(clip_p1)
        c(i) == plane_segment_directed_intersection(frustum.planes[i], h0, h1)
        ok(i) == /\ InUnitRange(c(i))
                 /\ is_point_in_or_on(frustum, PointAt(h0, h1, c(i).t), EpsInv)
    IN  Cardinality({i \in 1..6 : ok(i)})

\* C10 as stated: with no end point inside, exactly 2 crossings on the
\* frustum give Infix and any other number of them aborts.
C10_TwoOrFatal ==
    (pc = "clipped" /\ ~In0 /\ ~In1) =>
        LET count == OnFrustumCount
        IN  /\ count = 2 => clip_res.kind = "Infix"
            /\ count # 2 => clip_res = Panic

\* C10 amended: with no end point inside, exactly 2 crossings on the
\* frustum give Infix of the two points in the order of t, no crossing or one
\* crossing gives Outside, and 3 or more crossings abort.
C10_TwoInfixFewOutsideManyFatal ==
    (pc = "clipped" /\ ~In0 /\ ~In1) =>
        LET count == OnFrustumCount
        IN  /\ count = 2 =>
                  /\ clip_res.kind = "Infix"
                  /\ OnSegment(clip_res.pts[1])
                  /\ OnSegment(clip_res.pts[2])
                  /\ NotAfter(clip_res.pts[1], clip_res.pts[2])
            /\ count \in {0, 1} => clip_res = Outside
            /\ count >= 3 => clip_res = Panic

\* a segment with no end point inside and 4 crossings on the frustum aborts
C10_Witness ==
    /\ pc = "clipped"
    /\ ~In0
    /\ ~In1
    /\ OnFrustumCount = 4
    /\ clip_res = Panic

\* C11 as stated: clip_line never aborts; with exactly one end point inside
\* there is a crossing parameter left, and with no end point inside there
\* are at most 2 crossings on the frustum.
C11_ClipLineTotal ==
    pc = "clipped" =>
        LET h0 == Hom(clip_p0)
            h1 == Hom(clip_p1)
            isects == Intersections(frustum, h0, h1)
        IN  /\ clip_res.kind \in {"Outside", "Inside", "Prefix", "Suffix", "Infix"}
            /\ (In0 # In1) => isects # <<>>
            /\ (~In0 /\ ~In1) => Len(PointsOnFrustum(frustum, h0, h1, isects)) <= 2

(***************************************************************************)
(* Camera::clip_path (src/src/camera.rs), one step per iteration of its    *)
(* loop.  An arm of its match gives [ok, cur, out]: whether its assertion  *)
(* holds, and the new current_path and clipped_paths.                      *)
(***************************************************************************)
OutsideArm(cur, out) == [ok |-> cur = <<>>, cur |-> cur, out |-> out]

InsideArm(cur, out, p0, p1) ==
    [ok |-> TRUE, cur |-> Append(IF cur = <<>> THEN <<p0>> ELSE cur, p1), out |-> out]

InfixArmSwapped(cur, out, c0, c1) ==
    [ok |-> cur = <<>>, cur |-> cur, out |-> Append(out, <<c1, c0>>)]

InfixArm(cur, out, c0, c1) ==
    [ok |-> cur = <<>>, cur |-> cur, out |-> Append(out, <<c0, c1>>)]

SuffixArm(cur, out, c0, c1) == [ok |-> cur = <<>>, cur |-> <<c0, c1>>, out |-> out]

PrefixArmKeep(cur, out, c0, c1) ==
    LET done == Append(IF cur = <<>> THEN <<c0>> ELSE cur, c1)
    IN  [ok |-> TRUE, cur |-> done, out |-> Append(out, done)]

PrefixArm(cur, out, c0, c1) ==
    [ok |-> TRUE, cur |-> <<>>,
     out |-> Append(out, Append(IF cur = <<>> THEN <<c0>> ELSE cur, c1))]

\* the body of the loop for one result of clip_line
ClipPathArm(res, cur, out) ==
    CASE res.kind = "Outside" -> OutsideArm(cur, out)
      [] res.kind = "Inside" -> InsideArm(cur, out, res.pts[1], res.pts[2])
      [] res.kind = "Infix" -> InfixArm(cur, out, res.pts[1], res.pts[2])
      [] res.kind = "Suffix" -> SuffixArm(cur, out, res.pts[1], res.pts[2])
      [] res.kind = "Prefix" -> PrefixArm(cur, out, res.pts[1], res.pts[2])

\* the end of clip_path: a path still in construction is finished and moved
\* to clipped_paths
FinishCurrent(cur, out) ==
    [ok |-> cur = <<>> \/ Len(cur) > 1, cur |-> <<>>,
     out |-> IF cur # <<>> THEN Append(out, cur) ELSE out]

\* points inside, on and outside the frusta
PathPoints ==
    {Pt(0, 0, 0), Pt(0, 0, -1), Pt(0, 0, -2), Pt(2, 0, 0), Pt(3, 0, 0), Pt(-3, 0, 0),
     Pt(3, 0, 3), Pt(-3, 0, -3)}

Paths == UNION {[1..k -> PathPoints] : k \in 0..MaxPathLen}

ClipPathInit ==
    /\ pc = "clip_path"
    /\ RenderIdle
    /\ frustum \in Frusta
    /\ clip_p0 = Pt(0, 0, 0)
    /\ clip_p1 = Pt(0, 0, 0)
    /\ clip_res = Outside
    /\ path_in \in Paths
    /\ seg_i = 1
    /\ current_path = <<>>
    /\ clipped_paths = <<>>
    /\ CameraIdle

\* if path.len() < 2 { return vec![]; }
ClipPathShort ==
    /\ pc = "clip_path"
    /\ Len(path_in) < 2
    /\ pc' = "clip_path_done"
    /\ clipped_paths' = <<>>
    /\ UNCHANGED <<frustum, clip_p0, clip_p1, clip_res, path_in, seg_i, current_path>>
    /\ UNCHANGED cam_vars
    /\ UNCHANGED occ_vars
    /\ UNCHANGED render_vars

\* one iteration of `for i in 1..path.len()`
ClipPathSegment ==
    /\ pc = "clip_path"
    /\ Len(path_in) >= 2
    /\ seg_i < Len(path_in)
    /\ LET p0 == path_in[seg_i]
           p1 == path_in[seg_i + 1]
           res == clip_line(frustum, p0, p1)
       IN  /\ clip_p0' = p0
           /\ clip_p1' = p1
           /\ clip_res' = res
           /\ IF res.kind = "Panic"
              THEN /\ pc' = "aborted"
                   /\ UNCHANGED <<seg_i, current_path, clipped_paths>>
              ELSE LET arm == ClipPathArm(res, current_path, clipped_paths)
                   IN  IF arm.ok
                       THEN /\ pc' = pc
                            /\ seg_i' = seg_i + 1
                            /\ current_path' = arm.cur
                            /\ clipped_paths' = arm.out
                       ELSE /\ pc' = "assert_failed"
                            /\ UNCHANGED <<seg_i, current_path, clipped_paths>>
    /\ UNCHANGED <<frustum, path_in>>
    /\ UNCHANGED cam_vars
    /\ UNCHANGED occ_vars
    /\ UNCHANGED render_vars

\* after the loop: the last path is added and clipped_paths is returned
ClipPathReturn ==
    /\ pc = "clip_path"
    /\ Len(path_in) >= 2
    /\ seg_i = Len(path_in)
    /\ LET fin == FinishCurrent(current_path, clipped_paths)
       IN  IF fin.ok
           THEN /\ pc' = "clip_path_done"
                /\ current_path' = fin.cur
                /\ clipped_paths' = fin.out
           ELSE /\ pc' = "assert_failed"
                /\ UNCHANGED <<current_path, clipped_paths>>
    /\ UNCHANGED <<frustum, clip_p0, clip_p1, clip_res, path_in, seg_i>>
    /\ UNCHANGED cam_vars
    /\ UNCHANGED occ_vars
    /\ UNCHANGED render_vars

ClipPathNext ==
    \/ ClipPathShort
    \/ ClipPathSegment
    \/ ClipPathReturn

ClipPathSpec == ClipPathInit /\ [][ClipPathNext]_vars

(***************************************************************************)
(* Properties of clip_path.                                                *)
(***************************************************************************)
\* the result of clip_line for the segment the loop is about to take
NextClip == clip_line(frustum, path_in[seg_i], path_in[seg_i + 1])

\* C12: no assertion of clip_path fails: current_path is empty whenever the
\* next segment is Outside, Suffix or Infix, and the segment after an Inside
\* or a Suffix segment is Inside or Prefix.
C12_AccumulatorEmpty ==
    /\ pc # "assert_failed"
    /\ (pc = "clip_path" /\ seg_i < Len(path_in)) =>
          LET res == NextClip
          IN  /\ res.kind \in {"Outside", "Suffix", "Infix"} => current_path = <<>>
              /\ (seg_i > 1 /\ clip_res.kind \in {"Inside", "Suffix"}) =>
                    res.kind \in {"Inside", "Prefix"}

\* a path that enters the frustum and leaves it at once
C12_Witness ==
    /\ pc = "clip_path"
    /\ seg_i = 2
    /\ seg_i < Len(path_in)
    /\ clip_res.kind = "Suffix"
    /\ current_path # <<>>
    /\ NextClip.kind = "Prefix"

RECURSIVE Flatten(_)
\* the points of a list of paths, in order
Flatten(seqs) == IF seqs = <<>> THEN <<>> ELSE Head(seqs) \o Flatten(Tail(seqs))

\* the points clip_path has kept so far, in order
Kept == Flatten(clipped_paths) \o current_path

\* a step of clip_path keeps the points it has and adds points of the
\* segment it takes, in the direction of the segment
KeepsOrder ==
    LET before == Kept
        after == Kept'
    IN  /\ Len(after) >= Len(before)
        /\ SubSeq(after, 1, Len(before)) = before
        /\ seg_i' = seg_i => after = before
        /\ seg_i' # seg_i =>
              LET p0 == path_in[seg_i]
                  p1 == path_in[seg_i + 1]
              IN  \A k \in (Len(before) + 1)..Len(after) :
                      /\ OnSeg(p0, p1, after[k])
                      /\ p0 = p1 => after[k] = p0
                      /\ k > Len(before) + 1 => NotAfterOn(p0, p1, after[k - 1], after[k])

\* C13: every sub-path clip_path returns has 2 or more points, the points are
\* in the order of the input path, and a path of 0 or 1 points gives no
\* sub-path.
C13_SubPaths ==
    /\ [](/\ \A k \in 1..Len(clipped_paths) : Len(clipped_paths[k]) >= 2
          /\ (pc = "clip_path_done" /\ Len(path_in) < 2) => clipped_paths = <<>>)
    /\ [][KeepsOrder]_vars

\* a path of 3 points that leaves the frustum and comes back: 2 sub-paths
C13_Witness ==
    /\ pc = "clip_path_done"
    /\ Len(path_in) = 3
    /\ Len(clipped_paths) = 2
    /\ clipped_paths[1][2] # clipped_paths[2][1]

(***************************************************************************)
(* A Camera value: Camera::new() followed by builder calls, and queries on *)
(* the value built.                                                        *)
(***************************************************************************)
\* <<origin, target, up>> of look_at: views along an axis
LookAts ==
    {<<<<0, 0, 5>>, <<0, 0, 0>>, <<0, 1, 0>>>>,
     <<<<0, 0, -5>>, <<0, 0, 0>>, <<0, 1, 0>>>>,
     <<<<5, 0, 0>>, <<0, 0, 0>>, <<0, 1, 0>>>>,
     <<<<0, 5, 0>>, <<0, 0, 0>>, <<0, 0, 1>>>>}

\* <<tan(fov / 2), aspect, znear, zfar>> of perspective
Perspectives == {<<1, 1, 1, 10>>, <<1, 2, 1, 5>>}

\* <<half_width, half_height, znear, zfar>> of ortho
Orthos == {<<2, 2, 1, 10>>, <<2, 2, -2, 2>>, <<1, 1, -1, 1>>}

Resolutions == {Rat(1, 1000), RInt(1)}

CameraInit ==
    /\ pc = "camera"
    /\ RenderIdle
    /\ frustum = from_clip_matrix(PerspectiveMatrix)
    /\ clip_p0 = Pt(0, 0, 0)
    /\ clip_p1 = Pt(0, 0, 0)
    /\ clip_res = Outside
    /\ ClipPathIdle

\* what a builder call leaves alone; it consumes the camera and returns a
\* new one, on which no query has been made
CameraCall(op) ==
    /\ pc = "camera"
    /\ call = NoCall
    /\ cam_calls < MaxCalls
    /\ cam_calls' = cam_calls + 1
    /\ cam_op' = op
    /\ UNCHANGED <<pc, call, frustum, clip_p0, clip_p1, clip_res>>
    /\ UNCHANGED clip_path_vars
    /\ UNCHANGED occ_vars
    /\ UNCHANGED render_vars

LookAt ==
    /\ CameraCall("look_at")
    /\ \E a \in LookAts : cam_val' = look_at(cam_val, a[1], a[2], a[3])

Perspective ==
    /\ CameraCall("perspective")
    /\ \E a \in Perspectives : cam_val' = perspective(cam_val, a[1], a[2], a[3], a[4])

Ortho ==
    /\ CameraCall("ortho")
    /\ \E a \in Orthos : cam_val' = ortho(cam_val, a[1], a[2], a[3], a[4])

SetResolution ==
    /\ CameraCall("set_resolution")
    /\ \E res \in Resolutions : cam_val' = set_resolution(cam_val, res)

\* what a query on the camera leaves alone; it borrows the camera, so that
\* one query on each camera value shows all there is to see
CameraQuery ==
    /\ pc = "camera"
    /\ call = NoCall
    /\ UNCHANGED <<pc, cam_val, cam_op, cam_calls, frustum, clip_p0, clip_p1, clip_res>>
    /\ UNCHANGED clip_path_vars
    /\ UNCHANGED occ_vars
    /\ UNCHANGED render_vars

\* integer points around the frusta of the cameras
ProbePoints == {<<x, y, z>> : x \in {-3, 0, 3}, y \in {-3, 0, 3}, z \in -6..6}

\* boxes inside, across and outside the frusta of the cameras
ProbeBoxes ==
    {Aabb(<<x, y, z>>, <<h, h, h>>) :
        x \in {-5, 0, 5}, y \in {-9, 0, 9}, z \in {-9, -5, 0, 5}, h \in {1, 6}}

IsPointVisible ==
    /\ CameraQuery
    /\ \E p \in ProbePoints :
          call' = [fn |-> "is_point_visible", arg |-> p, res |-> is_point_visible(cam_val, p)]

IsAabbVisible ==
    /\ CameraQuery
    /\ \E bb \in ProbeBoxes :
          call' = [fn |-> "is_aabb_visible", arg |-> bb, res |-> is_aabb_visible(cam_val, bb)]

CameraNext ==
    \/ LookAt
    \/ Perspective
    \/ Ortho
    \/ SetResolution
    \/ IsPointVisible
    \/ IsAabbVisible

CameraSpec == CameraInit /\ [][CameraNext]_vars

(***************************************************************************)
(* Properties of the Camera value.                                         *)
(***************************************************************************)
\* projection * view * (p, 1) lies in the clip cube: -w <= x, y, z <= w
InClipCubeOf(m, p) ==
    LET q == [r \in 1..4 |-> m[r][1] * p[1] + m[r][2] * p[2] + m[r][3] * p[3] + m[r][4]]
    IN  \A k \in 1..3 : -q[4] <= q[k] /\ q[k] <= q[4]

InClipCube(c, p) == InClipCubeOf(MatMul(c.projection, c.view_iso), p)

\* what the last builder call left unchanged; a query leaves the camera as
\* it was
Frame ==
    /\ cam_calls' = cam_calls => cam_val' = cam_val
    /\ cam_calls' # cam_calls =>
            /\ cam_op' = "look_at" =>
                  /\ cam_val'.projection = cam_val.projection
                  /\ cam_val'.resolution = cam_val.resolution
            /\ cam_op' \in {"perspective", "ortho"} =>
                  /\ cam_val'.view_iso = cam_val.view_iso
                  /\ cam_val'.resolution = cam_val.resolution
            /\ cam_op' = "set_resolution" =>
                  /\ cam_val'.view_iso = cam_val.view_iso
                  /\ cam_val'.projection = cam_val.projection
                  /\ cam_val'.frustum = cam_val.frustum

\* C14: after any sequence of builder calls the frustum of the camera is the
\* frustum of projection * view: it holds exactly the points that the two
\* transforms send into the clip cube; look_at keeps projection and
\* resolution, perspective and ortho keep view and resolution, and
\* set_resolution changes the resolution only.
C14_FrustumNeverStale ==
    /\ [](call = NoCall =>
            LET m == MatMul(cam_val.projection, cam_val.view_iso)
            IN  /\ cam_val.frustum = from_clip_matrix(m)
                /\ \A p \in ProbePoints :
                       is_point_in(cam_val.frustum, <<p[1], p[2], p[3], 1>>)
                           <=> InClipCubeOf(m, p))
    /\ [][Frame]_vars

\* a camera whose view and projection were both replaced, then its resolution
C14_Witness ==
    /\ cam_calls = 3
    /\ cam_op = "set_resolution"
    /\ cam_val.view_iso # IdentityMatrix
    /\ cam_val.projection # PerspectiveMatrix
    /\ cam_val.resolution = RInt(1)

\* s < -r for plane i of the camera: the box lies on the outer side of it
OuterSide(bb, i) ==
    LET plane == cam_val.frustum.planes[i]
        r == Abs(plane.n[1]) * bb.half_extents[1] + Abs(plane.n[2]) * bb.half_extents[2]
               + Abs(plane.n[3]) * bb.half_extents[3]
        s == IDot3(plane.n, bb.center) + plane.w
    IN  s < -r

\* C17 as stated: is_aabb_visible returns false whenever the box lies on the
\* outer side of one of the six planes, and true for a box that no plane
\* has on its outer side.
C17_RejectsOutsideAnyPlane ==
    call.fn = "is_aabb_visible" =>
        /\ (\E i \in 1..6 : OuterSide(call.arg, i)) => call.res = FALSE
        /\ (\A i \in 1..6 : ~OuterSide(call.arg, i)) => call.res = TRUE

\* p lies in the box bb, faces included
InBox(bb, p) ==
    \A k \in 1..3 : Abs(p[k] - bb.center[k]) <= bb.half_extents[k]

\* the corners and the centre of bb, and the probe points
BoxPoints(bb) ==
    {<<bb.center[1] + dx * bb.half_extents[1],
       bb.center[2] + dy * bb.half_extents[2],
       bb.center[3] + dz * bb.half_extents[3]>> : dx \in {-1, 0, 1}, dy \in {-1, 0, 1}, dz \in {-1, 1}}
      \cup {bb.center} \cup ProbePoints

\* C23: is_aabb_visible has no false negative: a box that holds a point of
\* the frustum is reported visible, and a box is reported invisible only if
\* it lies strictly on the outer side of one of the six planes.
C23_NoFalseNegative ==
    (call.fn = "is_aabb_visible" /\ ~call.res) =>
        /\ \E i \in 1..6 : OuterSide(call.arg, i)
        /\ \A p \in BoxPoints(call.arg) :
              InBox(call.arg, p) => ~is_point_visible(cam_val, p)

\* a box that straddles a plane and holds a point of the frustum is visible
C23_Witness ==
    /\ call.fn = "is_aabb_visible"
    /\ call.res
    /\ \E i \in 1..6 :
          box_plane_intersection(call.arg, cam_val.frustum.planes[i]) = "Intersects"
    /\ \E p \in BoxPoints(call.arg) :
          InBox(call.arg, p) /\ is_point_visible(cam_val, p)

\* the camera of tests::test_visiblity
TestCamera ==
    /\ cam_val.projection = OrthoMatrix(2, 2, 1, 10)
    /\ cam_val.view_iso = look_at_rh(<<0, 0, 5>>, <<0, 0, 0>>, <<0, 1, 0>>)

\* C18: is_point_visible is true exactly for the points that satisfy the six
\* inequalities of the planes, equality included: the points that view and
\* projection send into the clip cube; for the orthographic camera at
\* (0, 0, 5) that looks at the origin with near 1 and far 10, a point of the
\* view axis is visible exactly when its depth 5 - z is from 1 to 10.
C18_PointInFrustum ==
    call.fn = "is_point_visible" =>
        /\ call.res <=> \A i \in 1..6 :
                            IDot3(cam_val.frustum.planes[i].n, call.arg)
                              + cam_val.frustum.planes[i].w >= 0
        /\ call.res <=> InClipCube(cam_val, call.arg)
        /\ (TestCamera /\ call.arg[1] = 0 /\ call.arg[2] = 0) =>
              (call.res <=> (1 <= 5 - call.arg[3] /\ 5 - call.arg[3] <= 10))

\* the point of the view axis on the near plane of that camera is visible
C18_Witness ==
    /\ call.fn = "is_point_visible"
    /\ TestCamera
    /\ call.arg = <<0, 0, 4>>
    /\ call.res

(***************************************************************************)
(* The occlusion test: SceneOcclusionVisitor (src/src/scene/visitors.rs)   *)
(* driven by the best-first search of the bounding volume tree.  The ray   *)
(* is fixed; the tree is given as the ray meets it: bv is the result of    *)
(* bv.toi_with_ray(ray, max_toi) of a node and hit the distance of         *)
(* shape.intersect(ray, max_toi) of a leaf, each an Option of a distance   *)
(* in 0..ToiMax.  A shape lies within its bounding box and a box within    *)
(* the box of its parent.                                                  *)
(***************************************************************************)
Leaf(bv, hit) == [kind |-> "leaf", bv |-> bv, hit |-> hit]
Node(bv, l, r) == [kind |-> "node", bv |-> bv, l |-> l, r |-> r]

Leaves ==
    {Leaf(None, None)}
      \cup {Leaf(Some(b), None) : b \in 0..ToiMax}
      \cup UNION {{Leaf(Some(b), Some(t)) : t \in b..ToiMax} : b \in 0..ToiMax}

\* the distances at which the ray can enter a box that holds boxes l and r
ParentBvs(l, r) ==
    LET ds == {Unwrap(c.bv) : c \in {x \in {l, r} : IsSome(x.bv)}}
    IN  IF ds = {} THEN {None} \cup {Some(b) : b \in 0..ToiMax}
        ELSE {Some(b) : b \in {x \in 0..ToiMax : \A d \in ds : x <= d}}

RECURSIVE Trees(_)
\* the trees of n shapes
Trees(n) ==
    IF n = 1 THEN Leaves
    ELSE UNION {UNION {{Node(b, l, r) : b \in ParentBvs(l, r)} :
                           l \in Trees(k), r \in Trees(n - k)} : k \in 1..(n - 1)}

\* BVT::new_balanced(shapes) of 0 to n shapes
Bvts(n) == {None} \cup UNION {{Some(t) : t \in Trees(k)} : k \in 1..n}

\* the shapes of a tree
RECURSIVE Shapes(_)
Shapes(t) == IF t.kind = "leaf" THEN {t} ELSE Shapes(t.l) \cup Shapes(t.r)

RECURSIVE NodeAt(_, _)
\* the node of tree t at a path of 1 (left) and 2 (right)
NodeAt(t, path) ==
    IF path = <<>> THEN t
    ELSE NodeAt(IF Head(path) = 1 THEN t.l ELSE t.r, Tail(path))

Stop == [kind |-> "Stop", cost |-> 0, result |-> None]
Continue(cost, result) == [kind |-> "Continue", cost |-> cost, result |-> result]
ExitEarly(result) == [kind |-> "ExitEarly", cost |-> 0, result |-> result]

visitFartherHit(best_cost_so_far, nd, target) ==
    IF ~IsSome(nd.bv) THEN Stop
    ELSE LET rough_toi == Unwrap(nd.bv)
         IN  IF /\ nd.kind = "leaf"
                /\ rough_toi < best_cost_so_far
                /\ IsSome(nd.hit)
             THEN IF Unwrap(nd.hit) > target THEN ExitEarly(Some(FALSE))
                  ELSE Continue(Unwrap(nd.hit), Some(TRUE))
             ELSE Continue(rough_toi, Some(TRUE))

\* SceneOcclusionVisitor::visit
visit(best_cost_so_far, nd, target) ==
    IF ~IsSome(nd.bv) THEN Stop
    ELSE LET rough_toi == Unwrap(nd.bv)
         IN  IF /\ nd.kind = "leaf"
                /\ rough_toi < best_cost_so_far
                /\ IsSome(nd.hit)
             THEN IF Unwrap(nd.hit) < target THEN ExitEarly(Some(FALSE))
                  ELSE Continue(Unwrap(nd.hit), Some(TRUE))
             ELSE Continue(rough_toi, Some(TRUE))

\* the search visits one child: st is [exit, best_cost, best_result, queue]
VisitChild(st, t, path, target) ==
    IF IsSome(st.exit) THEN st
    ELSE LET status == visit(st.best_cost, NodeAt(t, path), target)
         IN  CASE status.kind = "Stop" -> st
               [] status.kind = "ExitEarly" -> [st EXCEPT !.exit = Some(status.result)]
               [] status.kind = "Continue" ->
                    IF status.cost < st.best_cost
                    THEN [exit |-> None,
                          best_cost |-> IF IsSome(status.result) THEN status.cost
                                        ELSE st.best_cost,
                          best_result |-> IF IsSome(status.result) THEN status.result
                                          ELSE st.best_result,
                          queue |-> st.queue \cup {[path |-> path, cost |-> status.cost]}]
                    ELSE st

\* the result of the search is Some(false): the target is occluded
is_occluded(result) == result = Some(FALSE)

OcclusionInit ==
    /\ pc = "occlusion"
    /\ RenderIdle
    /\ frustum = from_clip_matrix(PerspectiveMatrix)
    /\ clip_p0 = Pt(0, 0, 0)
    /\ clip_p1 = Pt(0, 0, 0)
    /\ clip_res = Outside
    /\ path_in = <<>>
    /\ seg_i = 1
    /\ current_path = <<>>
    /\ clipped_paths = <<>>
    /\ cam_val = CameraNew
    /\ cam_op = "new"
    /\ cam_calls = 0
    /\ call = NoCall
    /\ bvt \in Bvts(MaxShapes)
    /\ target_toi \in 1..ToiMax
    /\ queue = {}
    /\ best_cost = CostMax
    /\ best_result = None
    /\ occ_result = None
    /\ SceneIdle

\* what a step of the search leaves alone
OcclusionFrame ==
    /\ UNCHANGED scene_vars
    /\ UNCHANGED <<bvt, target_toi, frustum, clip_p0, clip_p1, clip_res>>
    /\ UNCHANGED clip_path_vars
    /\ UNCHANGED cam_vars
    /\ UNCHANGED render_vars

\* the search returns
SearchReturn(result) ==
    /\ pc' = "occ_done"
    /\ occ_result' = result

\* the search visits the root
SearchRoot ==
    /\ pc = "occlusion"
    /\ IF ~IsSome(bvt)
       THEN /\ SearchReturn(best_result)
            /\ UNCHANGED <<queue, best_cost, best_result>>
       ELSE LET status == visit(best_cost, Unwrap(bvt), target_toi)
            IN  CASE status.kind = "Stop" ->
                       /\ SearchReturn(None)
                       /\ UNCHANGED <<queue, best_cost, best_result>>
                  [] status.kind = "ExitEarly" ->
                       /\ SearchReturn(status.result)
                       /\ UNCHANGED <<queue, best_cost, best_result>>
                  [] status.kind = "Continue" ->
                       /\ pc' = "search"
                       /\ best_cost' = IF IsSome(status.result) THEN status.cost
                                       ELSE best_cost
                       /\ best_result' = IF IsSome(status.result) THEN status.result
                                         ELSE best_result
                       /\ queue' = {[path |-> <<>>, cost |-> status.cost]}
                       /\ UNCHANGED occ_result
    /\ OcclusionFrame

\* one iteration of `while let Some(entry) = queue.pop()`
SearchPop ==
    /\ pc = "search"
    /\ IF queue = {}
       THEN /\ SearchReturn(best_result)
            /\ UNCHANGED <<queue, best_cost, best_result>>
       ELSE \E entry \in queue :
              /\ \A e \in queue : entry.cost <= e.cost
              /\ IF entry.cost >= best_cost
                 THEN /\ SearchReturn(best_result)
                      /\ queue' = queue \ {entry}
                      /\ UNCHANGED <<best_cost, best_result>>
                 ELSE LET t == Unwrap(bvt)
                          nd == NodeAt(t, entry.path)
                          st0 == [exit |-> None, best_cost |-> best_cost,
                                  best_result |-> best_result,
                                  queue |-> queue \ {entry}]
                          st == IF nd.kind = "leaf" THEN st0
                                ELSE VisitChild(
                                       VisitChild(st0, t, Append(entry.path, 1),
                                                  target_toi),
                                       t, Append(entry.path, 2), target_toi)
                      IN  /\ best_cost' = st.best_cost
                          /\ best_result' = st.best_result
                          /\ queue' = st.queue
                          /\ IF IsSome(st.exit)
                             THEN SearchReturn(Unwrap(st.exit))
                             ELSE UNCHANGED <<pc, occ_result>>
    /\ OcclusionFrame

OcclusionNext ==
    \/ SearchRoot
    \/ SearchPop

OcclusionSpec == OcclusionInit /\ [][OcclusionNext]_vars

(***************************************************************************)
(* Properties of the occlusion test.  The distances are integers, so that  *)
(* a distance below the target distance is below it by more than 1e-5.     *)
(***************************************************************************)
\* some shape of the Scene is hit by the ray before the target
SomeShapeBefore ==
    /\ IsSome(bvt)
    /\ \E sh \in Shapes(Unwrap(bvt)) : IsSome(sh.hit) /\ Unwrap(sh.hit) < target_toi

\* C15: with a single shape that the ray hits before the target the target
\* is reported occluded, and in a Scene without shapes no target is.
C15_SingleShapeOccludes ==
    pc = "occ_done" =>
        /\ ~IsSome(bvt) => ~is_occluded(occ_result)
        /\ (IsSome(bvt) /\ Unwrap(bvt).kind = "leaf" /\ SomeShapeBefore) =>
              is_occluded(occ_result)

\* a single shape hit at distance 1 before a target at distance 2
C15_Witness ==
    /\ pc = "occ_done"
    /\ bvt = Some(Leaf(Some(0), Some(1)))
    /\ target_toi = 2
    /\ is_occluded(occ_result)

\* C16 as stated: the best-first search reports occluded exactly when some
\* shape is hit before the target, for every tree.
C16_SameAsExhaustive ==
    pc = "occ_done" => (is_occluded(occ_result) <=> SomeShapeBefore)

(***************************************************************************)
(* Scene::render (src/src/scene/scene.rs): the tree of the Scene is        *)
(* visited with a CameraVisiblePathCollector (src/src/scene/visitors.rs).  *)
(* A leaf holds the box of a shape and, for each path the shape declares,  *)
(* the number of polylines render_path returns for it; a node holds the    *)
(* box that encloses the boxes of its two children.  The camera is         *)
(* Camera::new().                                                          *)
(***************************************************************************)
\* the most shapes of a Scene
MaxLeaves == 3

ShapeLeaf(bv, paths) == [kind |-> "leaf", bv |-> bv, paths |-> paths]

\* the least box that holds the boxes a and b
Merged(a, b) ==
    LET lo == [k \in 1..3 |-> IF a.center[k] - a.half_extents[k] < b.center[k] - b.half_extents[k]
                              THEN a.center[k] - a.half_extents[k]
                              ELSE b.center[k] - b.half_extents[k]]
        hi == [k \in 1..3 |-> IF a.center[k] + a.half_extents[k] > b.center[k] + b.half_extents[k]
                              THEN a.center[k] + a.half_extents[k]
                              ELSE b.center[k] + b.half_extents[k]]
    IN  Aabb([k \in 1..3 |-> (lo[k] + hi[k]) \div 2], [k \in 1..3 |-> (hi[k] - lo[k]) \div 2])

\* boxes of shapes: in the frustum, below it although across its left plane,
\* and two to the left of it
ShapeBoxes ==
    {Aabb(<<1, 1, -5>>, <<1, 1, 1>>), Aabb(<<-5, -9, -5>>, <<1, 1, 1>>),
     Aabb(<<-9, 1, -5>>, <<1, 1, 1>>), Aabb(<<-9, -1, -3>>, <<1, 1, 1>>)}

\* shape.paths(), each path as the number of polylines it is rendered to
ShapePaths == {<<1>>, <<0, 2>>}

ShapeLeaves == {ShapeLeaf(b, ps) : b \in ShapeBoxes, ps \in ShapePaths}

RECURSIVE SceneTrees(_)
\* the trees of n shapes
SceneTrees(n) ==
    IF n = 1 THEN ShapeLeaves
    ELSE UNION {{Node(Merged(l.bv, r.bv), l, r) : l \in SceneTrees(k), r \in SceneTrees(n - k)} :
                   k \in 1..(n - 1)}

\* the trees of a Scene of up to n shapes; None is the tree of a Scene
\* without shapes
SceneBvts(n) == {None} \cup {Some(t) : t \in UNION {SceneTrees(k) : k \in 1..n}}

\* what scene.render_path returns for path k of the shape at leaf loc
render_path_result(loc, k, n) == [j \in 1..n |-> <<loc, k, j>>]

\* the loop over shape.paths() of the visitor
RenderShape(loc, paths) ==
    Flatten([k \in 1..Len(paths) |-> render_path_result(loc, k, paths[k])])

\* the calls of render_path of that loop
RenderCalls(loc, paths) == [k \in 1..Len(paths) |-> [loc |-> loc, k |-> k]]

CollectorVisitNoCull(c, rendered, nd, loc) ==
    [status |-> "Continue",
     rendered_paths |-> IF nd.kind = "leaf" THEN rendered \o RenderShape(loc, nd.paths)
                        ELSE rendered,
     calls |-> IF nd.kind = "leaf" THEN RenderCalls(loc, nd.paths) ELSE <<>>]

\* CameraVisiblePathCollector::visit on node nd at loc
CollectorVisit(c, rendered, nd, loc) ==
    IF is_aabb_visible(c, nd.bv)
    THEN [status |-> "Continue",
          rendered_paths |-> IF nd.kind = "leaf" THEN rendered \o RenderShape(loc, nd.paths)
                             ELSE rendered,
          calls |-> IF nd.kind = "leaf" THEN RenderCalls(loc, nd.paths) ELSE <<>>]
    ELSE [status |-> "Stop", rendered_paths |-> rendered, calls |-> <<>>]

SceneInit ==
    /\ pc = "render"
    /\ RenderIdle
    /\ frustum = from_clip_matrix(PerspectiveMatrix)
    /\ clip_p0 = Pt(0, 0, 0)
    /\ clip_p1 = Pt(0, 0, 0)
    /\ clip_res = Outside
    /\ path_in = <<>>
    /\ seg_i = 1
    /\ current_path = <<>>
    /\ clipped_paths = <<>>
    /\ cam_val = CameraNew
    /\ cam_op = "new"
    /\ cam_calls = 0
    /\ call = NoCall
    /\ bvt = None
    /\ target_toi = 1
    /\ queue = {}
    /\ best_cost = CostMax
    /\ best_result = None
    /\ occ_result = None
    /\ scene_bvt \in SceneBvts(MaxLeaves)
    /\ stack = <<>>
    /\ rendered_paths = <<>>
    /\ visits = <<>>

\* what a step of Scene::render leaves alone
SceneFrame ==
    /\ UNCHANGED <<scene_bvt, bvt, target_toi, queue, best_cost, best_result, occ_result>>
    /\ UNCHANGED <<frustum, clip_p0, clip_p1, clip_res>>
    /\ UNCHANGED clip_path_vars
    /\ UNCHANGED cam_vars
    /\ UNCHANGED render_vars

\* Scene::render makes the visitor; BVT::visit pushes the root
Render ==
    /\ pc = "render"
    /\ pc' = "visit"
    /\ stack' = IF IsSome(scene_bvt) THEN <<<<>>>> ELSE <<>>
    /\ UNCHANGED <<rendered_paths, visits>>
    /\ SceneFrame

\* one iteration of `while let Some(node) = stack.pop()` of BVT::visit
Visit ==
    /\ pc = "visit"
    /\ stack # <<>>
    /\ LET loc == stack[Len(stack)]
           nd == NodeAt(Unwrap(scene_bvt), loc)
           res == CollectorVisit(cam_val, rendered_paths, nd, loc)
           rest == SubSeq(stack, 1, Len(stack) - 1)
       IN  /\ rendered_paths' = res.rendered_paths
           /\ visits' = visits \o res.calls
           /\ stack' = IF res.status = "Continue" /\ nd.kind = "node"
                       THEN rest \o <<Append(loc, 1), Append(loc, 2)>>
                       ELSE rest
    /\ UNCHANGED pc
    /\ SceneFrame

\* the stack is empty: Scene::render returns visitor.rendered_paths
RenderReturn ==
    /\ pc = "visit"
    /\ stack = <<>>
    /\ pc' = "rendered"
    /\ UNCHANGED <<stack, rendered_paths, visits>>
    /\ SceneFrame

SceneNext ==
    \/ Render
    \/ Visit
    \/ RenderReturn

SceneSpec == SceneInit /\ [][SceneNext]_vars

(***************************************************************************)
(* Properties of Scene::render.                                            *)
(***************************************************************************)
RECURSIVE LeafLocs(_, _)
\* the places of the leaves of tree t, which is at loc
LeafLocs(t, loc) ==
    IF t.kind = "leaf" THEN {loc}
    ELSE LeafLocs(t.l, Append(loc, 1)) \cup LeafLocs(t.r, Append(loc, 2))

\* the box of the node at loc and the boxes of all nodes above it pass
\* is_aabb_visible
Passes(loc) ==
    \A n \in 0..Len(loc) :
        is_aabb_visible(cam_val, NodeAt(Unwrap(scene_bvt), SubSeq(loc, 1, n)).bv)

\* the polylines of the calls of render_path so far, in the order of the calls
RenderedByVisits ==
    Flatten([i \in 1..Len(visits) |->
                render_path_result(visits[i].loc, visits[i].k,
                                   NodeAt(Unwrap(scene_bvt), visits[i].loc).paths[visits[i].k])])

\* a step of the traversal appends to what is rendered
AppendsOnly ==
    /\ Len(visits') >= Len(visits)
    /\ SubSeq(visits', 1, Len(visits)) = visits
    /\ Len(rendered_paths') >= Len(rendered_paths)
    /\ SubSeq(rendered_paths', 1, Len(rendered_paths)) = rendered_paths

\* C21: no path of a shape at or below a node whose box fails
\* is_aabb_visible is rendered; when Scene::render returns, each path of
\* each shape whose box and the boxes above it pass has been rendered
\* exactly once; the result holds the polylines of the paths in the order in
\* which the paths were rendered, and a step only appends to it.
C21_CullsSubtreesRendersOnce ==
    /\ [](/\ \A i \in 1..Len(visits) : Passes(visits[i].loc)
          /\ IsSome(scene_bvt) => rendered_paths = RenderedByVisits
          /\ ~IsSome(scene_bvt) => rendered_paths = <<>>
          /\ (pc = "rendered" /\ IsSome(scene_bvt)) =>
                \A loc \in LeafLocs(Unwrap(scene_bvt), <<>>) :
                    \A k \in 1..Len(NodeAt(Unwrap(scene_bvt), loc).paths) :
                        Cardinality({i \in 1..Len(visits) :
                                        visits[i] = [loc |-> loc, k |-> k]})
                            = IF Passes(loc) THEN 1 ELSE 0)
    /\ [][AppendsOnly]_vars

\* a Scene in which a node is culled with the two shapes below it and
\* another shape is rendered
C21_Witness ==
    /\ pc = "rendered"
    /\ IsSome(scene_bvt)
    /\ Unwrap(scene_bvt).kind = "node"
    /\ \E loc \in LeafLocs(Unwrap(scene_bvt), <<>>) :
          /\ Len(loc) = 2
          /\ ~is_aabb_visible(cam_val, NodeAt(Unwrap(scene_bvt), SubSeq(loc, 1, 1)).bv)
    /\ \E loc \in LeafLocs(Unwrap(scene_bvt), <<>>) :
          /\ Passes(loc)
          /\ \E i \in 1..Len(visits) : visits[i].loc = loc
    /\ rendered_paths # <<>>

(***************************************************************************)
(* Properties of the adaptive renderer.                                    *)
(***************************************************************************)
\* the step is one iteration of the sample loop whose sample tested `visible`
TestStep(visible) ==
    /\ pc = "samples"
    /\ last'.op = "test"
    /\ last'.visible = visible

\* the 2D point of the sample the loop is about to test
CurrentSample == xy(proj_points[idx + 1])

\* C1: in the sample loop, a Continuing accumulator that meets a sample
\* that is not visible becomes Empty, and the accumulated path is appended
\* to the output list once, unchanged.
C1_ContinuingHiddenEmits ==
    [][(TestStep(FALSE) /\ path_state.tag = "Continuing")
         => /\ path_state' = Empty
            /\ all_paths' = Append(all_paths, path_state.path)]_vars

C1_Witness ==
    /\ last.op = "test"
    /\ last.from = "Continuing"
    /\ ~last.visible
    /\ path_state = Empty
    /\ Len(all_paths) = 1
    /\ Len(all_paths[1]) = last.from_len

\* C2 as stated: a Started accumulator that meets a sample that is not
\* visible becomes Empty and nothing is appended to the output list.
C2_StartedHiddenEmitsNothing ==
    [][(TestStep(FALSE) /\ path_state.tag = "Started")
         => /\ path_state' = Empty
            /\ all_paths' = all_paths]_vars

\* C2 amended: a Started accumulator that meets a sample that is not
\* visible becomes Empty; a single point is discarded and nothing is
\* appended, a path of two or more points (carried over from the previous
\* segment) is appended to the output list once, unchanged.
C2_StartedHiddenAmended ==
    [][(TestStep(FALSE) /\ path_state.tag = "Started")
         => /\ path_state' = Empty
            /\ Len(path_state.path) = 1 => all_paths' = all_paths
            /\ Len(path_state.path) >= 2
                  => all_paths' = Append(all_paths, path_state.path)]_vars

C2_Witness ==
    /\ last.op = "test"
    /\ last.from = "Started"
    /\ last.from_len = 1
    /\ ~last.visible
    /\ path_state = Empty
    /\ all_paths = <<>>

\* C3: a visible sample appends nothing to the output list; from Empty the
\* accumulator becomes Started with exactly that point, from Started the
\* point is appended and the state is Continuing, from Continuing the last
\* point is replaced, the length and the earlier points staying as they are.
C3_VisibleNeverEmits ==
    [][TestStep(TRUE)
         => /\ all_paths' = all_paths
            /\ path_state.tag = "Empty"
                  => path_state' = Started(<<CurrentSample>>)
            /\ path_state.tag = "Started"
                  => path_state' = Continuing(Append(path_state.path, CurrentSample))
            /\ path_state.tag = "Continuing"
                  => /\ path_state'.tag = "Continuing"
                     /\ Len(path_state'.path) = Len(path_state.path)
                     /\ path_state'.path[Len(path_state.path)] = CurrentSample
                     /\ \A k \in 1..(Len(path_state.path) - 1) :
                           path_state'.path[k] = path_state.path[k]]_vars

C3_Witness ==
    /\ last.op = "test"
    /\ last.from = "Continuing"
    /\ last.visible
    /\ path_state.tag = "Continuing"
    /\ Len(path_state.path) = last.from_len
    /\ last.from_len >= 2

\* C4: every polyline of the output list of render_path has at least two
\* points, while the call runs and when it returns.
C4_OutputAtLeastTwoPoints ==
    \A k \in 1..Len(all_paths) : Len(all_paths[k]) >= 2

\* a one-point accumulator reached the final flush and was not pushed
C4_Witness ==
    /\ last.op = "end_path"
    /\ IsSome(curr_render_path)
    /\ Len(Unwrap(curr_render_path)) = 1
    /\ Len(all_paths) >= 1

\* C5: every point of every output polyline is the projection of a sample
\* that is_point_visible reported visible.
C5_OutputOnlyVisibleSamples ==
    \A k \in 1..Len(all_paths) :
        \A j \in 1..Len(all_paths[k]) : all_paths[k][j] \in seen_visible

C5_Witness ==
    /\ last.op = "test"
    /\ ~last.visible
    /\ last.from = "Continuing"
    /\ all_paths # <<>>

\* C7: within a clipped sub-path a non-empty accumulator is carried into
\* the next segment and not flushed; the first sample of a segment is
\* skipped exactly when a path was carried in, and is then equal to the last
\* point of that path; the flush after the last segment pushes the
\* accumulator iff it has at least two points; a sub-path starts with no
\* accumulator.
C7_Chaining ==
    [][/\ (pc = "samples" /\ pc' = "segments")
            => /\ all_paths' = all_paths
               /\ curr_render_path' = IF path_state.tag = "Empty"
                                      THEN None
                                      ELSE Some(path_state.path)
       /\ (pc = "segments" /\ pc' = "samples")
            => /\ all_paths' = all_paths
               /\ IF curr_render_path # None
                  THEN /\ idx' = 1
                       /\ path_state'.path = Unwrap(curr_render_path)
                       /\ path_state'.tag # "Empty"
                       /\ xy(proj_points'[1])
                            = path_state'.path[Len(path_state'.path)]
                  ELSE /\ idx' = 0
                       /\ path_state' = Empty
       /\ (pc = "segments" /\ pc' = "paths")
            => all_paths' = IF curr_render_path # None
                               /\ Len(Unwrap(curr_render_path)) >= 2
                            THEN Append(all_paths, Unwrap(curr_render_path))
                            ELSE all_paths
       /\ (pc = "paths" /\ pc' = "segments")
            => curr_render_path' = None]_vars

\* the second sub-path carries a path of two points into its second segment
C7_Witness ==
    /\ n_paths = 2
    /\ n_segs = 1
    /\ pc = "samples"
    /\ last.op = "begin_segment"
    /\ idx = 1
    /\ path_state.tag = "Started"
    /\ Len(path_state.path) = 2

\* C20 as stated: a Started accumulator holds exactly one point and a
\* Continuing accumulator holds 2 or more.
C20_StartedHoldsOne ==
    /\ path_state.tag = "Started" => Len(path_state.path) = 1
    /\ path_state.tag = "Continuing" => Len(path_state.path) >= 2

\* C20 amended: a Started accumulator holds one point when a visible sample
\* started it, and the whole path carried over from the previous segment
\* (1 or more points) at the beginning of a segment; a Continuing accumulator
\* holds 2 or more points.
C20_StartedHoldsOneOrCarried ==
    /\ path_state.tag = "Started" =>
          /\ Len(path_state.path) >= 1
          /\ last.op = "test" => Len(path_state.path) = 1
          /\ Len(path_state.path) >= 2 =>
                /\ last.op = "begin_segment"
                /\ curr_render_path = Some(path_state.path)
    /\ path_state.tag = "Continuing" => Len(path_state.path) >= 2

\* a segment that begins with a carried path of 2 or more points
C20_Witness ==
    /\ pc = "samples"
    /\ path_state.tag = "Started"
    /\ Len(path_state.path) >= 2

\* the path in progress: the accumulator in the sample loop, the carried
\* path between two segments
PathInProgress ==
    IF pc = "samples" THEN path_state.path
    ELSE IF pc = "segments" /\ IsSome(curr_render_path) THEN Unwrap(curr_render_path)
    ELSE <<>>

\* the path in progress begins and ends as the run of visible samples does
TracksRun ==
    /\ run.n = 0 => PathInProgress = <<>>
    /\ run.n = 1 => PathInProgress = <<run.first>>
    /\ run.n = 2 =>
          /\ Len(PathInProgress) >= 2
          /\ PathInProgress[1] = run.first
          /\ PathInProgress[Len(PathInProgress)] = run.last

\* a step that ends a run of 2 or more samples appends one polyline from the
\* first to the last sample of the run; no other step appends anything
EmitsRun ==
    IF /\ run.n = 2
       /\ \/ last'.op = "test" /\ ~last'.visible
          \/ last'.op = "end_path"
    THEN /\ Len(all_paths') = Len(all_paths) + 1
         /\ SubSeq(all_paths', 1, Len(all_paths)) = all_paths
         /\ Len(all_paths'[Len(all_paths')]) >= 2
         /\ all_paths'[Len(all_paths')][1] = run.first
         /\ LET poly == all_paths'[Len(all_paths')] IN poly[Len(poly)] = run.last
    ELSE all_paths' = all_paths

\* C22: along a clipped sub-path each maximal run of 2 or more visible
\* samples in a row gives exactly one polyline, from the projection of the
\* first to the projection of the last sample of the run, also when the run
\* goes over the end of a segment and the carried path re-enters as Started;
\* a run of one visible sample gives nothing.
C22_OnePolylinePerRun ==
    /\ [](pc \in {"paths", "segments", "samples", "done"} => TracksRun)
    /\ [][EmitsRun]_vars

\* a run over the ends of two segments: the carried path of 3 points
\* re-entered as Started, the next sample was hidden and the path was emitted
C22_Witness ==
    /\ last.op = "test"
    /\ last.from = "Started"
    /\ last.from_len >= 3
    /\ ~last.visible
    /\ run = NoRun
    /\ all_paths # <<>>
    /\ Len(all_paths[Len(all_paths)]) = last.from_len

====
